---- MODULE Spec2Model ----
(***************************************************************************)
(* A model of src/toto-lottery-simulator.py: class TOTOLottery.            *)
(*                                                                         *)
(* One caller holds one TOTOLottery object and calls play_toto or          *)
(* simulate_until_jackpot on it, at most twice, with the same arguments.   *)
(* The random source (random.sample, random.choice) and the clock          *)
(* (time.time, datetime.now) are the environment: each read is a choice    *)
(* from a bounded set.  A caller that seeded the random source re-seeds it *)
(* before its second call, so the second call reads the same values.       *)
(***************************************************************************)
EXTENDS Integers, Sequences, FiniteSets

\* ------------------------------------------------------------------ bounds

\* The random source yields samples within 1..SampleMax (Spec).
SampleMax == 7
\* The largest max_draws the caller passes (Spec, SpecReplay).
MaxDraws == 3
\* The largest max_draws the caller passes in SpecProgress.
MaxProgressDraws == 45

\* -------------------------------------------------- TOTOLottery.__init__

numbers_to_pick == 6
RangeStop == 50
number_range == 1 .. (RangeStop - 1)
draws_per_year == 104
ProgressSlots == 20

None == << >>

\* The time that passes before a reading of the clock, in ticks.
Ticks == { 0, 1 }

VARIABLES
    player_numbers,     \* argument: the player's list of numbers
    max_draws,          \* argument of simulate_until_jackpot
    pool,               \* the random source yields samples within 1..pool
    seeded,             \* the caller seeded the random source
    pc,                 \* "idle", "loop", "break", "done", "played"
    recalled,           \* the caller has made its second call
    now,                \* the clock
    tape,               \* seeded source: the values read since the seed
    pos,                \* seeded source: how many of them were read again
    saved,              \* the first call's return value, kept at a re-seed
    draws,
    prize_counts,
    jackpot_achieved,
    start_time,
    progress_interval,
    next_progress,
    winning_numbers,    \* << >> while unbound
    additional,         \* 0 while unbound
    result,             \* None while unbound
    printed,            \* the progress values printed by line 119, in order
    log,                \* is_jackpot of each trial of the current call, in order
    ret                 \* None, or <<the returned dict>>

vars == << player_numbers, max_draws, pool, seeded, pc, recalled, now, tape,
           pos, saved, draws, prize_counts, jackpot_achieved, start_time,
           progress_interval, next_progress, winning_numbers, additional,
           result, printed, log, ret >>

\* ----------------------------------------------------------------- helpers

Range(s) == { s[i] : i \in DOMAIN s }

\* list(S) of a set of small ints, which CPython iterates in ascending order.
SetToList(S) ==
    [ i \in 1 .. Cardinality(S) |->
        CHOOSE x \in S : Cardinality({ y \in S : y < x }) = i - 1 ]

\* s with x inserted before the first element greater than x.
RECURSIVE Insert(_, _)
Insert(x, s) ==
    IF s = << >> THEN << x >>
    ELSE IF x < Head(s) THEN << x >> \o s
    ELSE << Head(s) >> \o Insert(x, Tail(s))

\* sorted(s) of a list: ascending, duplicates kept.
RECURSIVE sorted(_)
sorted(s) == IF s = << >> THEN << >> ELSE Insert(Head(s), sorted(Tail(s)))

\* ------------------------------------------------------- the random source

\* One order in which random.sample may return the set S: descending.
Descending(S) == LET a == SetToList(S) IN [ i \in 1 .. Len(a) |-> a[Len(a) + 1 - i] ]

\* What one call of generate_winning_numbers reads from the random source:
\* the list random.sample returns and the index random.choice picks, bounded
\* to samples within 1..p and to indices whose element is within 1..p.
RandomValues(p) ==
    { [ sample |-> Descending(S), choice |-> j ] :
        S \in { T \in SUBSET (1 .. p) : Cardinality(T) = numbers_to_pick },
        j \in 0 .. (p - numbers_to_pick - 1) }

\* RandomValues(p) for the values of pool the specifications use.
RandomSource == [ p \in { numbers_to_pick + 1, SampleMax } |-> RandomValues(p) ]

\* The values the next read may return: a re-seeded source repeats its tape.
NextRandom ==
    IF seeded /\ pos < Len(tape) THEN { tape[pos + 1] } ELSE RandomSource[pool]

Consume(v) ==
    IF seeded
    THEN /\ tape' = IF pos < Len(tape) THEN tape ELSE Append(tape, v)
         /\ pos' = pos + 1
    ELSE UNCHANGED << tape, pos >>

\* --------------------------------------------- generate_winning_numbers

\* Variant: the drawn numbers are not removed from the pool.
remaining_numbers_all(main_numbers) == SetToList(number_range)

remaining_numbers(main_numbers) == SetToList(number_range \ Range(main_numbers))

main_numbers_of(sample) == sorted(sample)

generate_winning_numbers(v) ==
    LET main_numbers == main_numbers_of(v.sample)
        remaining == remaining_numbers(main_numbers)
    IN  [ main_numbers |-> main_numbers, additional |-> remaining[v.choice + 1] ]

\* generate_winning_numbers, tabulated once over the random source's values.
Generated ==
    [ v \in UNION { RandomSource[p] : p \in DOMAIN RandomSource } |->
        generate_winning_numbers(v) ]

\* ------------------------------------------------------------ check_prize

PrizeKeys ==
    { "Group 1 Prize", "Group 2 Prize", "Group 3 Prize", "Group 4 Prize",
      "Group 5 Prize", "Group 6 Prize", "No prize" }

\* Variant: the player's entries are counted, a repeated number twice.
matches_listwise(player, winning) ==
    Cardinality({ i \in DOMAIN player : player[i] \in Range(winning) })

matches_of(player, winning) == Cardinality(Range(player) \cap Range(winning))

has_additional_of(player, additional_number) ==
    \E i \in DOMAIN player : player[i] = additional_number

\* Variant: the plain rules are tried before the supplementary ones.
prize_unordered(matches, has_additional) ==
    IF matches = 6 THEN "Group 1 Prize"
    ELSE IF matches = 5 THEN "Group 3 Prize"
    ELSE IF matches = 5 /\ has_additional THEN "Group 2 Prize"
    ELSE IF matches = 4 THEN "Group 5 Prize"
    ELSE IF matches = 4 /\ has_additional THEN "Group 4 Prize"
    ELSE IF matches = 3 /\ has_additional THEN "Group 6 Prize"
    ELSE "No prize"

prize_of(matches, has_additional) ==
    IF matches = 6 THEN "Group 1 Prize"
    ELSE IF matches = 5 /\ has_additional THEN "Group 2 Prize"
    ELSE IF matches = 5 THEN "Group 3 Prize"
    ELSE IF matches = 4 /\ has_additional THEN "Group 4 Prize"
    ELSE IF matches = 4 THEN "Group 5 Prize"
    ELSE IF matches = 3 /\ has_additional THEN "Group 6 Prize"
    ELSE "No prize"

\* matching_numbers is list(set & set): its elements are modelled, as a set;
\* the order of the list is the interpreter's and no claim depends on it.
check_prize(player, winning, additional_number) ==
    LET matches == matches_of(player, winning)
        has_additional == has_additional_of(player, additional_number)
    IN  [ prize |-> prize_of(matches, has_additional),
          matching_numbers |-> Range(player) \cap Range(winning),
          matches_count |-> matches,
          has_additional |-> has_additional,
          is_jackpot |-> (matches = 6) ]

\* --------------------------------------- calculate_odds, calculate_years

\* factorial(n) // (factorial(r) * factorial(n - r)); computed by the
\* multiplicative recurrence because factorial(49) exceeds TLC's integers.
RECURSIVE combinations(_, _)
combinations(n, r) ==
    IF r = 0 THEN 1 ELSE (combinations(n, r - 1) * (n - r + 1)) \div r

calculate_odds == combinations(RangeStop - 1, numbers_to_pick)

\* round(draws / draws_per_year, 1), in tenths of a year; an exact tie
\* rounds to the even tenth.
calculate_years(d) ==
    LET q == (10 * d) \div draws_per_year
        r == (10 * d) % draws_per_year
    IN  IF 2 * r > draws_per_year THEN q + 1
        ELSE IF 2 * r < draws_per_year THEN q
        ELSE IF q % 2 = 0 THEN q ELSE q + 1

\* ------------------------------------------------ simulate_until_jackpot

ZeroCounts == [ k \in PrizeKeys |-> 0 ]

\* Variant: the tally the previous call left behind.
CarriedPrizeCounts == prize_counts

InitialPrizeCounts == ZeroCounts

\* Variant: range(1, max_draws).
LoopHasNextShort(d, n) == d < n - 1

\* range(1, max_draws + 1) has an element after d.
LoopHasNext(d, n) == d < n

\* Variant: the loop goes on after a jackpot.
NeverBreak(is_jackpot) == "loop"

\* Lines 122-124: a jackpot leaves the loop.
AfterTrial(is_jackpot) == IF is_jackpot THEN "break" ELSE "loop"

Tally(counts, prize_key) ==
    IF prize_key \in DOMAIN counts
    THEN [ counts EXCEPT ![prize_key] = @ + 1 ]
    ELSE counts

\* int((draws / max_draws) * 20): the float product truncates to the integer
\* quotient for every cap up to MaxProgressDraws.
Progress(d, n) == (d * ProgressSlots) \div n

\* ------------------------------------------------------------------ inputs

\* The valid player lists tried: the k smallest numbers and the 6 - k largest.
Player(k) ==
    [ i \in 1 .. numbers_to_pick |->
        IF i <= k THEN i ELSE RangeStop - 1 - numbers_to_pick + i ]

ValidNumberSet(p) ==
    /\ Len(p) = numbers_to_pick
    /\ Cardinality(Range(p)) = numbers_to_pick
    /\ \A i \in DOMAIN p : p[i] \in number_range

ValidPlayers == { Player(k) : k \in 0 .. numbers_to_pick } \cup { <<2, 1, 3, 4, 5, 6>> }

InvalidPlayers ==
    { <<1, 1, 2, 3, 4, 5>>, <<1, 2, 3, 4, 5>>, <<1, 2, 3, 4, 5, 6, 7>>,
      <<1, 2, 3, 4, 5, 50>> }

Players == ValidPlayers \cup InvalidPlayers

\* The caps tried: negative, zero and 1..MaxDraws.
Caps == { -1, 0 } \cup (1 .. MaxDraws)

\* ----------------------------------------------------------------- actions

InitLocals ==
    /\ pc = "idle"
    /\ recalled = FALSE
    /\ now = 0
    /\ tape = << >>
    /\ pos = 0
    /\ saved = None
    /\ draws = 0
    /\ prize_counts = ZeroCounts
    /\ jackpot_achieved = FALSE
    /\ start_time = 0
    /\ progress_interval = 0
    /\ next_progress = 0
    /\ winning_numbers = << >>
    /\ additional = 0
    /\ result = None
    /\ printed = << >>
    /\ log = << >>
    /\ ret = None

Init ==
    /\ player_numbers \in Players
    /\ max_draws \in Caps
    /\ pool = SampleMax
    /\ seeded = FALSE
    /\ InitLocals

InitReplay ==
    /\ player_numbers \in Players
    /\ max_draws \in 1 .. MaxDraws
    /\ pool = numbers_to_pick + 1
    /\ seeded = TRUE
    /\ InitLocals

InitProgress ==
    /\ player_numbers \in { Player(0), Player(numbers_to_pick) }
    /\ max_draws \in 1 .. MaxProgressDraws
    /\ pool = numbers_to_pick + 1
    /\ seeded = FALSE
    /\ InitLocals

\* play_toto(player_numbers), whole.  draw_date is the clock's reading, which
\* strftime prints to the second.
PlayToto ==
    /\ pc = "idle"
    /\ \E v \in NextRandom, t \in { now + e : e \in Ticks } :
        \E g \in { Generated[v] } :
        \E r \in { check_prize(player_numbers, g.main_numbers, g.additional) } :
            /\ Consume(v)
            /\ winning_numbers' = g.main_numbers
            /\ additional' = g.additional
            /\ result' = r
            /\ now' = t
            /\ ret' = << [ draw_date |-> t,
                           player_numbers |-> sorted(player_numbers),
                           winning_numbers |-> g.main_numbers,
                           additional_number |-> g.additional,
                           result |-> r ] >>
    /\ pc' = "played"
    /\ UNCHANGED << player_numbers, max_draws, pool, seeded, recalled, saved,
                    draws, prize_counts, jackpot_achieved, start_time,
                    progress_interval, next_progress, printed, log >>

\* simulate_until_jackpot, lines 87-104: the locals before the loop.  The
\* call starts at the clock's last reading.
SimStart ==
    /\ pc = "idle"
    /\ start_time' = now
    /\ draws' = 0
    /\ prize_counts' = InitialPrizeCounts
    /\ jackpot_achieved' = FALSE
    /\ progress_interval' = max_draws \div ProgressSlots
    /\ next_progress' = max_draws \div ProgressSlots
    /\ winning_numbers' = << >>
    /\ additional' = 0
    /\ result' = None
    /\ printed' = << >>
    /\ log' = << >>
    /\ ret' = None
    /\ pc' = "loop"
    /\ UNCHANGED << player_numbers, max_draws, pool, seeded, recalled, now,
                    tape, pos, saved >>

\* One iteration of the loop, lines 106-124: draw, classify, tally, print the
\* progress when due, and leave the loop at a jackpot.
SimIterate ==
    /\ pc = "loop"
    /\ LoopHasNext(draws, max_draws)
    /\ \E v \in NextRandom :
        \E g \in { Generated[v] } :
        \E r \in { check_prize(player_numbers, g.main_numbers, g.additional) } :
        \E d \in { draws + 1 } :
            /\ Consume(v)
            /\ draws' = d
            /\ winning_numbers' = g.main_numbers
            /\ additional' = g.additional
            /\ result' = r
            /\ prize_counts' = Tally(prize_counts, r.prize)
            /\ IF d >= next_progress
               THEN /\ printed' = Append(printed, Progress(d, max_draws))
                    /\ next_progress' = next_progress + progress_interval
               ELSE UNCHANGED << printed, next_progress >>
            /\ jackpot_achieved' = (jackpot_achieved \/ r.is_jackpot)
            /\ log' = Append(log, r.is_jackpot)
            /\ pc' = AfterTrial(r.is_jackpot)
    /\ UNCHANGED << player_numbers, max_draws, pool, seeded, recalled, now,
                    saved, start_time, progress_interval, ret >>

\* The return, lines 126-133, after a break or when the range is exhausted.
\* simulation_time is in ticks, years_equivalent in tenths of a year.
SimReturn ==
    /\ \/ pc = "break"
       \/ pc = "loop" /\ ~LoopHasNext(draws, max_draws)
    /\ \E t \in { now + e : e \in Ticks } :
        /\ now' = t
        /\ ret' = << [ draws |-> draws,
                       jackpot_achieved |-> jackpot_achieved,
                       prize_counts |-> prize_counts,
                       simulation_time |-> t - start_time,
                       theoretical_odds |-> calculate_odds,
                       years_equivalent |-> calculate_years(draws) ] >>
    /\ pc' = "done"
    /\ UNCHANGED << player_numbers, max_draws, pool, seeded, recalled, tape,
                    pos, saved, draws, prize_counts, jackpot_achieved,
                    start_time, progress_interval, next_progress,
                    winning_numbers, additional, result, printed, log >>

\* The caller calls again on the same object with the same arguments.  The
\* finished call's frame is gone: the names the next call binds only inside
\* its body are unbound again, and the return value is dropped.  A caller
\* that seeded the random source keeps the first return value and re-seeds
\* the source with the same seed.
CallAgain ==
    /\ pc \in { "done", "played" }
    /\ ~recalled
    /\ recalled' = TRUE
    /\ pc' = "idle"
    /\ IF seeded
       THEN /\ saved' = << [ at |-> pc, ret |-> ret[1] ] >>
            /\ pos' = 0
       ELSE UNCHANGED << saved, pos >>
    /\ winning_numbers' = << >>
    /\ additional' = 0
    /\ result' = None
    /\ printed' = << >>
    /\ log' = << >>
    /\ ret' = None
    /\ UNCHANGED << player_numbers, max_draws, pool, seeded, now, tape, draws,
                    prize_counts, jackpot_achieved, start_time,
                    progress_interval, next_progress >>

Next == PlayToto \/ SimStart \/ SimIterate \/ SimReturn \/ CallAgain

Spec == Init /\ [][Next]_vars

SpecReplay == InitReplay /\ [][Next]_vars

SpecProgress == InitProgress /\ [][Next]_vars

\* ------------------------------------------------------------------ claims

RECURSIVE Sum(_, _)
Sum(f, S) ==
    IF S = {} THEN 0
    ELSE LET k == CHOOSE k \in S : TRUE IN f[k] + Sum(f, S \ {k})

InSimulation == pc \in { "loop", "break", "done" }

Returned == pc = "done" /\ ret # None

LastIsJackpot == Len(log) > 0 /\ log[Len(log)]

\* C1: for a valid player list and max_draws >= 1, the returned summary's
\* seven prize_counts entries sum to the returned draws, draws <= max_draws,
\* and draws = max_draws whenever jackpot_achieved is false.
C1_TallySumsToDraws ==
    (Returned /\ ValidNumberSet(player_numbers) /\ max_draws >= 1) =>
        LET s == ret[1] IN
        /\ DOMAIN s.prize_counts = PrizeKeys
        /\ Sum(s.prize_counts, PrizeKeys) = s.draws
        /\ s.draws <= max_draws
        /\ ~s.jackpot_achieved => s.draws = max_draws

\* A run of more than one trial that exhausted its cap without a jackpot.
C1_Witness ==
    /\ Returned /\ ValidNumberSet(player_numbers)
    /\ max_draws >= 2
    /\ ~ret[1].jackpot_achieved
    /\ ret[1].draws = max_draws

\* C2: the loop stops at the first jackpot trial: only the last trial
\* processed can be a jackpot, every trial generated is tallied and counted
\* in draws, jackpot_achieved is true exactly when the last trial processed
\* was a jackpot, the loop goes on only while no jackpot was seen, and a run
\* without a jackpot ends after exactly max_draws trials (max_draws >= 1).
C2_StopsAtFirstJackpot ==
    /\ InSimulation =>
        /\ \A i \in 1 .. Len(log) - 1 : ~log[i]
        /\ draws = Len(log)
        /\ Sum(prize_counts, PrizeKeys) = Len(log)
        /\ jackpot_achieved = LastIsJackpot
        /\ pc = "loop" => ~jackpot_achieved
        /\ pc = "break" => jackpot_achieved
    /\ Returned =>
        /\ ret[1].draws = Len(log)
        /\ ret[1].jackpot_achieved = LastIsJackpot
        /\ (~ret[1].jackpot_achieved /\ max_draws >= 1) => Len(log) = max_draws

\* A run that ended at a jackpot on its second trial, before its cap.
C2_Witness ==
    /\ Returned
    /\ ret[1].jackpot_achieved
    /\ ret[1].draws = 2
    /\ max_draws > 2

\* The rule list of the prize tiers, as a table of (matches, supplementary).
RuleList(m, a) ==
    CASE m = 6 -> "Group 1 Prize"
      [] m = 5 /\ a -> "Group 2 Prize"
      [] m = 5 /\ ~a -> "Group 3 Prize"
      [] m = 4 /\ a -> "Group 4 Prize"
      [] m = 4 /\ ~a -> "Group 5 Prize"
      [] m = 3 /\ a -> "Group 6 Prize"
      [] OTHER -> "No prize"

\* C3: the prize of every classification is the one the ordered rule list
\* gives for its (matches_count, has_additional), and is one of the seven
\* prize values.
C3_PrizeFollowsRuleList ==
    result # None =>
        /\ result.prize = RuleList(result.matches_count, result.has_additional)
        /\ result.prize \in PrizeKeys

\* Five matches with the supplementary number: the case the order decides.
C3_Witness ==
    /\ result # None
    /\ result.matches_count = 5
    /\ result.has_additional
    /\ result.prize = "Group 2 Prize"

\* C4: every generated draw has 6 distinct primary numbers in 1..49 in
\* ascending order, and a supplementary number in 1..49 that is not one of
\* them; in play_toto and in every iteration of simulate_until_jackpot.
C4_DrawWellFormed ==
    winning_numbers # << >> =>
        /\ Len(winning_numbers) = 6
        /\ \A i \in 1 .. 6 : winning_numbers[i] \in 1 .. 49
        /\ \A i \in 1 .. 5 : winning_numbers[i] < winning_numbers[i + 1]
        /\ additional \in 1 .. 49
        /\ \A i \in 1 .. 6 : winning_numbers[i] # additional

\* The second draw of a simulation, other than the six smallest numbers.
C4_Witness ==
    /\ InSimulation
    /\ draws = 2
    /\ winning_numbers # << >>
    /\ winning_numbers # << 1, 2, 3, 4, 5, 6 >>

\* C5: simulate_until_jackpot called with max_draws < 1 returns no summary.
C5_RejectsCapBelowOne == max_draws < 1 => ~Returned

\* C6: no operation returns a classification for a player list that is not
\* a valid number set.
C6_RejectsInvalidNumbers ==
    ~ValidNumberSet(player_numbers) => (result = None /\ ret = None)

\* The primary numbers of the draw that are among the player's numbers.
Common ==
    { n \in Range(winning_numbers) :
        \E i \in DOMAIN player_numbers : player_numbers[i] = n }

\* C7: matches_count is the size of the intersection of the player's
\* numbers with the primary numbers and lies in 0..6, matching_numbers is
\* that intersection, and has_additional is true exactly when the
\* supplementary number is among the player's numbers.
C7_MatchesAreIntersection ==
    result # None =>
        /\ result.matches_count = Cardinality(Common)
        /\ result.matches_count \in 0 .. 6
        /\ result.matching_numbers = Common
        /\ result.has_additional = (additional \in Range(player_numbers))

\* Four matches and the supplementary number.
C7_Witness ==
    /\ result # None
    /\ result.matches_count = 4
    /\ Cardinality(result.matching_numbers) = 4
    /\ result.has_additional

\* The second call has ended, after a re-seed, as the same operation as the
\* first.
Replayed == recalled /\ saved # None /\ ret # None /\ saved[1].at = pc

\* A return value without its readings of the clock.
WithoutClock(r, at) ==
    IF at = "done"
    THEN [ draws |-> r.draws,
           jackpot_achieved |-> r.jackpot_achieved,
           prize_counts |-> r.prize_counts,
           theoretical_odds |-> r.theoretical_odds,
           years_equivalent |-> r.years_equivalent ]
    ELSE [ player_numbers |-> r.player_numbers,
           winning_numbers |-> r.winning_numbers,
           additional_number |-> r.additional_number,
           result |-> r.result ]

\* C8, as stated: with the same arguments and the same values from the
\* random source, the second call returns exactly what the first returned.
C8_ExactlyReproducible == Replayed => ret[1] = saved[1].ret

\* C8, amended: the second call reads exactly the values the first read and
\* returns what the first returned, apart from the fields read from the
\* clock (draw_date, simulation_time).
C8_ReproducibleApartFromClock ==
    Replayed =>
        /\ pos = Len(tape)
        /\ WithoutClock(ret[1], pc) = WithoutClock(saved[1].ret, pc)

\* A simulation of two trials or more, run again after a re-seed.
C8_Witness ==
    /\ Replayed
    /\ pc = "done"
    /\ ret[1].draws >= 2

\* C9: for max_draws >= 1 progress is printed at most 20 times, and the
\* printed number of completed increments is within 0..20 and never
\* decreases.
C9_TwentyReports ==
    (InSimulation /\ max_draws >= 1) =>
        /\ Len(printed) <= 20
        /\ \A i \in 1 .. Len(printed) : printed[i] \in 0 .. 20
        /\ \A i \in 1 .. Len(printed) - 1 : printed[i] <= printed[i + 1]

\* C10: during a simulation the 'Group 1 Prize' count is 0 or 1; in the
\* returned summary it is 1 exactly when jackpot_achieved is true; every
\* classification has is_jackpot true exactly when its prize is 'Group 1
\* Prize'; and a call has an all-zero tally before its first trial.
C10_JackpotTallyAgrees ==
    /\ InSimulation => prize_counts["Group 1 Prize"] \in { 0, 1 }
    /\ Returned =>
        ret[1].prize_counts["Group 1 Prize"] =
            IF ret[1].jackpot_achieved THEN 1 ELSE 0
    /\ result # None => (result.is_jackpot <=> result.prize = "Group 1 Prize")
    /\ (InSimulation /\ draws = 0) => \A k \in PrizeKeys : prize_counts[k] = 0

\* A second call on the same object that ended at a jackpot.
C10_Witness ==
    /\ recalled
    /\ Returned
    /\ ret[1].jackpot_achieved
    /\ ret[1].prize_counts["Group 1 Prize"] = 1

====
